---- MODULE Spec2Model ----
(***************************************************************************)
(* Model of sra_processor: artifact-based status resolution                *)
(* (utils.check_srr_status), the per-unit full pipeline                    *)
(* (cli.process_full_pipeline with SRADownloader and FastpProcessor) and   *)
(* the batch loop (cli.cmd_full), together with the per-unit procedures of *)
(* the download and trim subcommands (cli.process_download,                *)
(* cli.process_trim_srr) and SRADownloader.batch_download.                 *)
(*                                                                         *)
(* A unit's working directory <output_dir>/<srr_id> is a flag (dir) and    *)
(* the set of the names it holds (files).  A name is written as the part   *)
(* that follows the identifier: "_1.fastq" stands for <srr_id>_1.fastq,    *)
(* "sub/.sra" for <srr_id>/<srr_id>.sra and "stray.txt" for a file no      *)
(* part of the program looks for.  "report.html" and "report.json" stand    *)
(* for report_<srr_id>.html and report_<srr_id>.json, "tmp" for the empty  *)
(* directory <srr_id>/tmp.                                                 *)
(***************************************************************************)
EXTENDS Integers, Sequences, FiniteSets, TLC

\* ------------------------------------------------------------- bounds
NUnits == 2
BatchLen == 2
MaxInitFiles == 2
MaxDepth == 2
MaxUnitFiles == 3
MaxRecords == 26
ListLines == 3

Units == 1..NUnits

\* ------------------------------------------------------- file names
FASTQ_EXTENSIONS == <<".fastq", ".fq", ".fas">>

Mate1(ext) ==
  CASE ext = ".fastq" -> "_1.fastq"
    [] ext = ".fq" -> "_1.fq"
    [] ext = ".fas" -> "_1.fas"

Mate2(ext) ==
  CASE ext = ".fastq" -> "_2.fastq"
    [] ext = ".fq" -> "_2.fq"
    [] ext = ".fas" -> "_2.fas"

Single(ext) == ext

TrimmedNames == {"_1_trimmed.fastq.gz", "_2_trimmed.fastq.gz", "_trimmed.fastq.gz"}

RawNames == {"_1.fastq", "_2.fastq", ".fastq", "_1.fq", "_2.fq", ".fq",
             "_1.fas", "_2.fas", ".fas"}

SraNames == {".sra", "sub/.sra"}

FileNames == TrimmedNames \cup RawNames \cup SraNames \cup {"stray.txt"}

\* What only the external tools leave behind: the reports of a trimming
\* tool (-h, -j) and the directory given to fasterq-dump as --temp.
ReportNames == {"report.html", "report.json"}

ScratchNames == {"tmp"}

States == {"new", "sra_downloaded", "fastq_ready", "single_end", "complete", "unknown"}

VARIABLES
  dir,          \* dir[u]: the unit's working directory exists
  files,        \* files[u]: the names present in it
  keep_temp,    \* config['keep_temp']
  config,       \* the subcommand with config['force_overwrite'] and config['keep_sra']
  faults,       \* the filesystem may refuse a deletion (unlink, rmdir)
  reliable,     \* every external tool exits 0 with its outputs written
  parked,       \* the local state of a second worker while the first one runs
  list_file,    \* the lines of the list file, Blank for a line of whitespace
  paths,        \* the file named by each line when the list holds FASTQ paths
  srr_ids,      \* the batch list read from list_file
  idx,          \* position of the for loop in srr_ids
  pc,           \* control point of the current process_full_pipeline call
  depth,        \* nesting depth of the recursive process_full_pipeline call
  status,       \* local variable status of the current call
  fastq_files,  \* local variable fastq_files (names, in list order)
  result,       \* return value of the current call
  results,      \* return values of the finished list entries
  success_count,\* cmd_full's counter
  calls,        \* calls[i]: external tools invoked for list entry i, in order
  raised,       \* exception raised while the current entry is processed, or "none"
  message,      \* str(e) of that exception, as a sequence of text pieces
  stderr,       \* what the tool that exited non-zero wrote to stderr, or <<>>
  trim_inputs,  \* the input files given to the trimming tool for the current entry
  sampled,      \* the content of the read file a classifier is given
  is_long,      \* what _is_long_read returned
  file_type,    \* what detect_fastq_type returned, "none" before
  routed,       \* the trimming variant process chose, "none" before
  warnings      \* names whose deletion failed with a logged warning (current entry)

vars == <<dir, files, keep_temp, config, faults, reliable, parked, list_file, paths,
          srr_ids, idx, pc, depth, status,
          fastq_files, result, results, success_count, calls, raised,
          message, stderr, trim_inputs, sampled, is_long, file_type, routed,
          warnings>>

\* The classification of the current entry's reads.
classification == <<sampled, is_long, file_type, routed>>

\* A read file as its classifiers see it: whether it can be opened and read
\* as text, and the length of each of its lines once stripped.
FileContent(readable, lines) == [readable |-> readable, lines |-> lines]

Unreadable == FileContent(FALSE, <<>>)

\* The exception of the current entry.
failure == <<raised, message, stderr>>

\* What the procedures of a unit never assign.
settings == <<keep_temp, config, faults, reliable, parked, list_file, paths>>

\* The local state of the worker that is running.
Locals ==
  [idx |-> idx, pc |-> pc, depth |-> depth, status |-> status,
   fastq_files |-> fastq_files, result |-> result, raised |-> raised,
   message |-> message, stderr |-> stderr, trim_inputs |-> trim_inputs,
   sampled |-> sampled, is_long |-> is_long, file_type |-> file_type,
   routed |-> routed, warnings |-> warnings]

\* The local state of a worker about to process list entry i.
Fresh(i) ==
  [idx |-> i, pc |-> "start", depth |-> 0, status |-> "none",
   fastq_files |-> <<>>, result |-> FALSE, raised |-> "none",
   message |-> <<>>, stderr |-> <<>>, trim_inputs |-> <<>>,
   sampled |-> Unreadable, is_long |-> FALSE, file_type |-> "none",
   routed |-> "none", warnings |-> {}]

\* There is no second worker.
NoWorker == [Fresh(0) EXCEPT !.pc = "none"]

Blank == 0

\* [line.strip() for line in f if line.strip()]
ReadList(lines) == SelectSeq(lines, LAMBDA l : l # Blank)

\* cli.create_config for the options of the stages: --force exists for the
\* trim subcommand only, --keep-sra for download only, the full subcommand
\* sets keep_sra to False, and --force-long-reads exists for every
\* subcommand.
create_config(subcommand, force, keep, force_long) ==
  [command |-> subcommand,
   force_overwrite |-> IF subcommand = "trim" THEN force ELSE FALSE,
   keep_sra |-> IF subcommand = "download" THEN keep ELSE FALSE,
   force_long_reads |-> force_long]

\* ------------------------------------------------- check_srr_status
Exists(u, n) == dir[u] /\ n \in files[u]

paired_complete(u) ==
  Exists(u, "_1_trimmed.fastq.gz") /\ Exists(u, "_2_trimmed.fastq.gz")

single_complete(u) == Exists(u, "_trimmed.fastq.gz")

PairedAt(u, ext) == Exists(u, Mate1(ext)) /\ Exists(u, Mate2(ext))

SingleAt(u, ext) == Exists(u, Single(ext))

SraPresent(u) == Exists(u, ".sra") \/ Exists(u, "sub/.sra")

\* Mutants of check_srr_status.
check_srr_status_NoDefault(u) ==
  IF ~dir[u] THEN "new"
  ELSE IF paired_complete(u) \/ single_complete(u) THEN "complete"
  ELSE IF (\E i \in 1..Len(FASTQ_EXTENSIONS) : PairedAt(u, FASTQ_EXTENSIONS[i])) THEN "fastq_ready"
  ELSE IF (\E i \in 1..Len(FASTQ_EXTENSIONS) : SingleAt(u, FASTQ_EXTENSIONS[i])) THEN "single_end"
  ELSE IF SraPresent(u) THEN "sra_downloaded"
  ELSE "None"

check_srr_status_RawFirst(u) ==
  IF ~dir[u] THEN "new"
  ELSE IF (\E i \in 1..Len(FASTQ_EXTENSIONS) : PairedAt(u, FASTQ_EXTENSIONS[i])) THEN "fastq_ready"
  ELSE IF (\E i \in 1..Len(FASTQ_EXTENSIONS) : SingleAt(u, FASTQ_EXTENSIONS[i])) THEN "single_end"
  ELSE IF paired_complete(u) \/ single_complete(u) THEN "complete"
  ELSE IF SraPresent(u) THEN "sra_downloaded"
  ELSE "unknown"

check_srr_status_MixedExt(u) ==
  IF ~dir[u] THEN "new"
  ELSE IF paired_complete(u) \/ single_complete(u) THEN "complete"
  ELSE IF /\ (\E i \in 1..Len(FASTQ_EXTENSIONS) : Exists(u, Mate1(FASTQ_EXTENSIONS[i])))
          /\ (\E i \in 1..Len(FASTQ_EXTENSIONS) : Exists(u, Mate2(FASTQ_EXTENSIONS[i])))
       THEN "fastq_ready"
  ELSE IF (\E i \in 1..Len(FASTQ_EXTENSIONS) : SingleAt(u, FASTQ_EXTENSIONS[i])) THEN "single_end"
  ELSE IF SraPresent(u) THEN "sra_downloaded"
  ELSE "unknown"

check_srr_status_RootOnly(u) ==
  IF ~dir[u] THEN "new"
  ELSE IF paired_complete(u) \/ single_complete(u) THEN "complete"
  ELSE IF (\E i \in 1..Len(FASTQ_EXTENSIONS) : PairedAt(u, FASTQ_EXTENSIONS[i])) THEN "fastq_ready"
  ELSE IF (\E i \in 1..Len(FASTQ_EXTENSIONS) : SingleAt(u, FASTQ_EXTENSIONS[i])) THEN "single_end"
  ELSE IF Exists(u, ".sra") THEN "sra_downloaded"
  ELSE "unknown"

check_srr_status_LoneMate(u) ==
  IF ~dir[u] THEN "new"
  ELSE IF paired_complete(u) \/ single_complete(u) THEN "complete"
  ELSE IF (\E i \in 1..Len(FASTQ_EXTENSIONS) : PairedAt(u, FASTQ_EXTENSIONS[i])) THEN "fastq_ready"
  ELSE IF (\E i \in 1..Len(FASTQ_EXTENSIONS) : SingleAt(u, FASTQ_EXTENSIONS[i]) \/ Exists(u, Mate1(FASTQ_EXTENSIONS[i])))
       THEN "single_end"
  ELSE IF SraPresent(u) THEN "sra_downloaded"
  ELSE "unknown"

check_srr_status(u) ==
  IF ~dir[u] THEN "new"
  ELSE IF paired_complete(u) THEN "complete"
  ELSE IF single_complete(u) THEN "complete"
  ELSE IF (\E i \in 1..Len(FASTQ_EXTENSIONS) : PairedAt(u, FASTQ_EXTENSIONS[i])) THEN "fastq_ready"
  ELSE IF (\E i \in 1..Len(FASTQ_EXTENSIONS) : SingleAt(u, FASTQ_EXTENSIONS[i])) THEN "single_end"
  ELSE IF SraPresent(u) THEN "sra_downloaded"
  ELSE "unknown"

\* --------------------------------------- status resolution on its own
\* Every artifact set of one unit, resolved once.
InitStatus ==
  /\ list_file = <<1>>
  /\ srr_ids = ReadList(list_file)
  /\ \E d \in BOOLEAN, fs \in SUBSET FileNames :
       /\ (~d => fs = {})
       /\ dir = [u \in Units |-> IF u = 1 THEN d ELSE FALSE]
       /\ files = [u \in Units |-> IF u = 1 THEN fs ELSE {}]
  /\ keep_temp = FALSE
  /\ config = create_config("full", FALSE, FALSE, FALSE)
  /\ faults = FALSE
  /\ reliable = FALSE
  /\ parked = NoWorker
  /\ paths = <<>>
  /\ idx = 1
  /\ pc = "idle"
  /\ depth = 0
  /\ status = "none"
  /\ fastq_files = <<>>
  /\ result = FALSE
  /\ results = <<>>
  /\ success_count = 0
  /\ calls = << <<>> >>
  /\ raised = "none"
  /\ message = <<>>
  /\ stderr = <<>>
  /\ trim_inputs = <<>>
  /\ sampled = Unreadable
  /\ is_long = FALSE
  /\ file_type = "none"
  /\ routed = "none"
  /\ warnings = {}

\* Mutant of ResolveOnly: the resolution creates the unit directory.
ResolveOnlyMkdir ==
  /\ pc = "idle"
  /\ status' = check_srr_status(srr_ids[idx])
  /\ pc' = "resolved"
  /\ dir' = [dir EXCEPT ![srr_ids[idx]] = TRUE]
  /\ UNCHANGED <<files, settings, srr_ids, idx, depth, fastq_files,
                 result, results, success_count, calls, failure, trim_inputs, classification, warnings>>

ResolveOnly ==
  /\ pc = "idle"
  /\ status' = check_srr_status(srr_ids[idx])
  /\ pc' = "resolved"
  /\ UNCHANGED <<dir, files, settings, srr_ids, idx, depth, fastq_files,
                 result, results, success_count, calls, failure, trim_inputs, classification, warnings>>

NextStatus == ResolveOnly

SpecStatus == InitStatus /\ [][NextStatus]_vars

\* =================================================================
\* The full pipeline: cmd_full and process_full_pipeline
\* =================================================================
\* prefetch, fasterq-dump and fastp are installed, so that the
\* constructors' _validate_tools pass.
force_overwrite == config.force_overwrite

keep_sra == config.keep_sra

SRAProcessingErrors == {"DownloadError", "ConversionError", "TrimmingError"}

\* Outcomes of a subprocess.run(check=True) of each external tool: exit 0
\* with the outputs written, exit 0 with nothing written, a non-zero exit,
\* and for fastplong (whose absence _validate_tools only warns about) the
\* executable not being found.
PrefetchOutcomes == IF reliable THEN {"ok"} ELSE {"ok", "silent", "fail"}

FasterqOutcomes ==
  IF reliable THEN {"paired", "single"} ELSE {"paired", "single", "silent", "fail"}

TrimOutcomes(tool) ==
  IF reliable THEN {"ok"}
  ELSE IF tool = "fastplong" THEN {"ok", "silent", "fail", "notfound"}
  ELSE {"ok", "silent", "fail"}

RmtreeOutcomes == IF reliable THEN {"ok"} ELSE {"ok", "error"}

\* Names matched by find_fastq_files' patterns <srr_id>*<ext>, in the order
\* list.sort() gives them ('.' sorts before '_', digits before letters).
SortedGlobNames ==
  <<".fas", ".fastq", ".fq",
    "_1.fas", "_1.fastq", "_1.fq", "_1_trimmed.fastq.gz",
    "_2.fas", "_2.fastq", "_2.fq", "_2_trimmed.fastq.gz",
    "_trimmed.fastq.gz">>

find_fastq_files(d, fs) ==
  IF ~d THEN <<>> ELSE SelectSeq(SortedGlobNames, LAMBDA n : n \in fs)

\* Mutant of NotTrimmed: nothing is filtered out.
NotTrimmedKeepAll(s) == s

\* [f for f in fastq_files if 'trimmed' not in f.name]
NotTrimmed(s) == SelectSeq(s, LAMBDA n : n \notin TrimmedNames)

\* Mutant of _validate_output: only a pair of mates is accepted.
_validate_output_PairedOnly(fs) ==
  LET pe == SelectSeq(FASTQ_EXTENSIONS, LAMBDA e : Mate1(e) \in fs /\ Mate2(e) \in fs)
  IN  IF pe # <<>> THEN [type |-> "paired", files |-> <<Mate1(pe[1]), Mate2(pe[1])>>]
      ELSE [type |-> "ConversionError", files |-> <<>>]

\* SRADownloader._validate_output
_validate_output(fs) ==
  LET pe == SelectSeq(FASTQ_EXTENSIONS, LAMBDA e : Mate1(e) \in fs /\ Mate2(e) \in fs)
      se == SelectSeq(FASTQ_EXTENSIONS, LAMBDA e : Single(e) \in fs)
  IN  IF pe # <<>> THEN [type |-> "paired", files |-> <<Mate1(pe[1]), Mate2(pe[1])>>]
      ELSE IF se # <<>> THEN [type |-> "single", files |-> <<Single(se[1])>>]
      ELSE [type |-> "ConversionError", files |-> <<>>]

\* The deletions the filesystem refuses among those of the names in S.
Refusals(S) == IF faults THEN SUBSET S ELSE {{}}

\* SRADownloader._clean_sra_file: each archive found is unlinked, a refused
\* unlink is logged as a warning and the archive stays.
_clean_sra_file(fs, refused) == fs \ ({"sub/.sra", ".sra"} \ refused)

\* FastpProcessor._standardize_fastq_extensions: the files after the renames
\* and the standard names returned (<<>> for None).
_standardize_fastq_extensions(fs, paired) ==
  LET pe == SelectSeq(FASTQ_EXTENSIONS, LAMBDA e : Mate1(e) \in fs /\ Mate2(e) \in fs)
      se == SelectSeq(FASTQ_EXTENSIONS, LAMBDA e : Single(e) \in fs)
  IN  IF paired
      THEN IF pe = <<>> THEN [files |-> fs, std |-> <<>>]
           ELSE [files |-> (fs \ {Mate1(pe[1]), Mate2(pe[1])}) \cup {"_1.fastq", "_2.fastq"},
                 std |-> <<"_1.fastq", "_2.fastq">>]
      ELSE IF se = <<>> THEN [files |-> fs, std |-> <<>>]
           ELSE [files |-> (fs \ {Single(se[1])}) \cup {".fastq"},
                 std |-> <<".fastq">>]

\* A FASTQ text of n four-line records and the first t lines of one more;
\* the reads of the first k records are a long, those of the others b.
FastqLines(n, k, a, b, t) ==
  [i \in 1..(4 * n + t) |->
     IF (i - 1) % 4 \in {1, 3}
     THEN IF (i - 1) \div 4 + 1 <= k THEN a ELSE b
     ELSE 1]

\* for _ in range(25)
SampleSize == 25

\* avg_length > 500
LongThreshold == 500

\* The read lengths tried: around the threshold.
ReadLengths == {LongThreshold - 1, LongThreshold, LongThreshold + 1}

\* The opener of trimmer.py, line 48: the lines of the file as text, or an
\* exception when the file cannot be read.
open_fastq_file(c) ==
  IF c.readable THEN [ok |-> TRUE, f |-> c.lines] ELSE [ok |-> FALSE, f |-> <<>>]

\* The sampling loop of both classifiers, from its i-th pass on: header,
\* seq, plus and qual are the next four lines or None, the loop breaks when
\* seq is None, and otherwise len(seq.strip()) is appended.
RECURSIVE sample_lengths(_, _, _)
sample_lengths(f, i, lengths) ==
  IF i = SampleSize \/ 4 * i + 2 > Len(f) THEN lengths
  ELSE sample_lengths(f, i + 1, Append(lengths, f[4 * i + 2]))

RECURSIVE sum(_)
sum(lengths) == IF lengths = <<>> THEN 0 ELSE Head(lengths) + sum(Tail(lengths))

\* Mutant of avg_above: the threshold itself counts as long.
avg_above_or_equal(lengths) == sum(lengths) >= LongThreshold * Len(lengths)

\* sum(lengths) / len(lengths) > 500, for a non-empty list.
avg_above(lengths) == sum(lengths) > LongThreshold * Len(lengths)

\* FastpProcessor._is_long_read
_is_long_read(c) ==
  LET o == open_fastq_file(c)
      lengths == sample_lengths(o.f, 0, <<>>)
  IN  IF ~o.ok THEN FALSE
      ELSE IF lengths = <<>> THEN FALSE
      ELSE avg_above(lengths)

\* re.search(r'_1[._]', name) and re.sub(r'_1([._])', r'_2\1', name), for
\* the names a read file has after the identifier.
MatePairs ==
  {<<Mate1(e), Mate2(e)>> : e \in {".fastq", ".fq", ".fas"}}
    \cup {<<"_1_trimmed.fastq.gz", "_2_trimmed.fastq.gz">>}

IsMate1(name) == \E p \in MatePairs : p[1] = name

PartnerOf(name) == (CHOOSE p \in MatePairs : p[1] = name)[2]

\* detect_fastq_type for the file called name, in a directory holding fs.
detect_fastq_type(name, c, fs) ==
  LET lengths == sample_lengths(c.lines, 0, <<>>)
  IN  IF ~c.readable THEN "single"
      ELSE IF lengths = <<>> THEN "single"
      ELSE IF avg_above(lengths) THEN "long"
      ELSE IF IsMate1(name) /\ PartnerOf(name) \in fs THEN "paired"
      ELSE "single"

\* The contents a raw read file of a unit may have: none that can be read,
\* or one record whose read has the threshold length or one base more.
ReadContents ==
  {Unreadable}
    \cup {FileContent(TRUE, FastqLines(1, 1, a, a, 0)) :
            a \in {LongThreshold, LongThreshold + 1}}

\* Mutant of Route: the classification is not consulted.
RouteByCount(input_files, long) ==
  IF Len(input_files) = 2 THEN "paired" ELSE "short"

\* FastpProcessor.process: which of the three trimming variants runs.
Route(input_files, long) ==
  IF Len(input_files) = 1 /\ long THEN "long"
  ELSE IF Len(input_files) = 2 THEN "paired"
  ELSE "short"

TrimTool(route) == IF route = "long" THEN "fastplong" ELSE "fastp"

TrimOutputs(route) ==
  IF route = "paired" THEN {"_1_trimmed.fastq.gz", "_2_trimmed.fastq.gz"}
  ELSE {"_trimmed.fastq.gz"}

\* The files handed to the tool: the caller's paths when the first one
\* exists (the callers pass absolute paths), the standardized names otherwise.
TrimInputs(fs, input_files, route) ==
  IF route = "long" THEN [files |-> fs, std |-> <<input_files[1]>>]
  ELSE IF input_files[1] \in fs
       THEN [files |-> fs,
             std |-> IF route = "paired" THEN input_files ELSE <<input_files[1]>>]
       ELSE _standardize_fastq_extensions(fs, route = "paired")

SeqRange(s) == {s[i] : i \in 1..Len(s)}

\* Mutant of AfterTrim: the inputs are unlinked whatever keep_temp says.
AfterTrimAlwaysCleans(fs, std, outs, outcome, refused) ==
  LET written == IF outcome = "ok" THEN fs \cup outs \cup ReportNames ELSE fs
  IN  written \ (SeqRange(std) \ refused)

\* FastpProcessor._run_trimming after an exit 0, with _clean_intermediates:
\* the outputs and the two reports are there when the tool wrote them, and
\* the inputs are unlinked, a refused unlink being logged as a warning.
AfterTrim(fs, std, outs, outcome, refused) ==
  LET written == IF outcome = "ok" THEN fs \cup outs \cup ReportNames ELSE fs
  IN  IF keep_temp THEN written ELSE written \ (SeqRange(std) \ refused)

\* FastpProcessor._remove_empty_tmp: the possible results of the rmdir of an
\* empty tmp directory; the call is not guarded, so that a refused rmdir
\* raises OSError.
_remove_empty_tmp(fs) ==
  IF "tmp" \notin fs THEN {[files |-> fs, error |-> FALSE]}
  ELSE {[files |-> fs \ {"tmp"}, error |-> FALSE]}
       \cup (IF faults THEN {[files |-> fs, error |-> TRUE]} ELSE {})

cur == srr_ids[idx]

\* Python's None where a text is expected, and how an f-string renders it.
None == <<>>

Fmt(x) == IF x = None THEN <<"None">> ELSE x

\* The identifier of a unit as it appears in a text.
IdText(u) == <<ToString(u)>>

\* What a tool that exits non-zero may have written to stderr.
StderrTexts(tool) == {<<tool, ": diagnostic">>}

\* str(e) of the exceptions of exceptions.py, from their constructors: the
\* first positional argument is srr_id (tool for TrimmingError).
DownloadError(srr_id, msg) ==
  IF srr_id # None THEN <<"Error descargando ">> \o Fmt(srr_id) \o <<": ">> \o Fmt(msg)
  ELSE Fmt(msg)

ConversionError(srr_id, msg) ==
  IF srr_id # None THEN <<"Error convirtiendo ">> \o Fmt(srr_id) \o <<": ">> \o Fmt(msg)
  ELSE Fmt(msg)

TrimmingError(tool, msg) ==
  IF tool # None THEN <<"Error en ">> \o Fmt(tool) \o <<": ">> \o Fmt(msg)
  ELSE Fmt(msg)

\* str(e) of an exception the standard library raises.
BuiltinText(type) == <<type>>

Log(tool) == [calls EXCEPT ![idx] = Append(@, tool)]

\* The sets of at most k elements of S.
UpTo(S, k) ==
  LET Grow[i \in 0..k] ==
        IF i = 0 THEN {{}}
        ELSE Grow[i - 1] \cup {s \cup {x} : s \in Grow[i - 1], x \in S}
  IN  Grow[k]

\* The output root before the run: at most MaxInitFiles files in all, each
\* in the directory of some unit; a unit without files may have an empty
\* directory or none.
InitialContents == UpTo(Units \X FileNames, MaxInitFiles)

Init ==
  /\ list_file \in [1..BatchLen -> Units]
  /\ srr_ids = ReadList(list_file)
  /\ \E c \in InitialContents :
       /\ files = [u \in Units |-> {n \in FileNames : <<u, n>> \in c}]
       /\ dir \in [Units -> BOOLEAN]
       /\ \A u \in Units : files[u] # {} => dir[u]
  /\ keep_temp \in BOOLEAN
  /\ config = create_config("full", FALSE, FALSE, FALSE)
  /\ faults = FALSE
  /\ reliable = FALSE
  /\ parked = NoWorker
  /\ paths = <<>>
  /\ idx = 1
  /\ pc = "start"
  /\ depth = 0
  /\ status = "none"
  /\ fastq_files = <<>>
  /\ result = FALSE
  /\ results = <<>>
  /\ success_count = 0
  /\ calls = << <<>> >>
  /\ raised = "none"
  /\ message = <<>>
  /\ stderr = <<>>
  /\ trim_inputs = <<>>
  /\ sampled = Unreadable
  /\ is_long = FALSE
  /\ file_type = "none"
  /\ routed = "none"
  /\ warnings = {}

\* Mutant of Resolve: a unit whose archive is there is acquired again.
ResolveRedownload ==
  /\ pc = "start"
  /\ config.command = "full"
  /\ LET st == check_srr_status(cur)
         ff == NotTrimmed(find_fastq_files(dir[cur], files[cur]))
     IN  /\ status' = st
         /\ CASE st \in {"new", "sra_downloaded"} ->
                   /\ pc' = "download"
                   /\ UNCHANGED <<fastq_files, result>>
              [] st \in {"fastq_ready", "single_end"} ->
                   /\ fastq_files' = ff
                   /\ pc' = IF ff # <<>> THEN "trim" ELSE "returned"
                   /\ result' = FALSE
              [] st = "complete" ->
                   /\ pc' = "returned"
                   /\ result' = TRUE
                   /\ UNCHANGED fastq_files
              [] OTHER ->
                   /\ pc' = "recover"
                   /\ UNCHANGED <<fastq_files, result>>
  /\ UNCHANGED <<dir, files, settings, srr_ids, idx, depth, results,
                 success_count, calls, failure, trim_inputs, classification, warnings>>

\* process_full_pipeline, lines 178-238 up to the first stage: resolve the
\* status and dispatch on it.
Resolve ==
  /\ pc = "start"
  /\ config.command = "full"
  /\ LET st == check_srr_status(cur)
         ff == NotTrimmed(find_fastq_files(dir[cur], files[cur]))
     IN  /\ status' = st
         /\ CASE st = "new" ->
                   /\ pc' = "download"
                   /\ UNCHANGED <<fastq_files, result>>
              [] st = "sra_downloaded" ->
                   /\ pc' = "convert"
                   /\ UNCHANGED <<fastq_files, result>>
              [] st \in {"fastq_ready", "single_end"} ->
                   /\ fastq_files' = ff
                   /\ pc' = IF ff # <<>> THEN "trim" ELSE "returned"
                   /\ result' = FALSE
              [] st = "complete" ->
                   /\ pc' = "returned"
                   /\ result' = TRUE
                   /\ UNCHANGED fastq_files
              [] OTHER ->
                   /\ pc' = "recover"
                   /\ UNCHANGED <<fastq_files, result>>
  /\ UNCHANGED <<dir, files, settings, srr_ids, idx, depth, results,
                 success_count, calls, failure, trim_inputs, classification, warnings>>

\* Mutant of Download: the directory is removed again when prefetch fails.
DownloadRemovesOnFailure ==
  /\ pc = "download"
  /\ IF "sub/.sra" \in files[cur]
     THEN /\ pc' = "convert"
          /\ dir' = [dir EXCEPT ![cur] = TRUE]
          /\ UNCHANGED <<files, calls, failure, result>>
     ELSE \E outcome \in PrefetchOutcomes :
            /\ calls' = Log("prefetch")
            /\ files' = [files EXCEPT ![cur] =
                           IF outcome = "ok" THEN @ \cup {"sub/.sra"}
                           ELSE IF outcome = "fail" THEN {} ELSE @]
            /\ dir' = [dir EXCEPT ![cur] = outcome # "fail"]
            /\ raised' = IF outcome = "fail" THEN "DownloadError" ELSE "none"
            /\ \E e \in StderrTexts("prefetch") :
                 /\ stderr' = IF outcome = "fail" THEN e ELSE <<>>
                 /\ message' = IF outcome = "fail"
                               THEN DownloadError(<<"Error en prefetch para ">>
                                                    \o IdText(cur) \o <<": ">> \o e, None)
                               ELSE <<>>
            /\ pc' = IF outcome = "fail" THEN "returned" ELSE "convert"
            /\ result' = FALSE
  /\ UNCHANGED <<settings, srr_ids, idx, depth, status, fastq_files, results,
                 success_count, trim_inputs, classification, warnings>>

\* Mutant of Download: the conversion is attempted after a failed prefetch.
DownloadContinues ==
  /\ pc = "download"
  /\ dir' = [dir EXCEPT ![cur] = TRUE]
  /\ IF "sub/.sra" \in files[cur]
     THEN /\ pc' = "convert"
          /\ UNCHANGED <<files, calls, failure, result>>
     ELSE \E outcome \in PrefetchOutcomes :
            /\ calls' = Log("prefetch")
            /\ files' = [files EXCEPT ![cur] =
                           IF outcome = "ok" THEN @ \cup {"sub/.sra"} ELSE @]
            /\ raised' = IF outcome = "fail" THEN "DownloadError" ELSE "none"
            /\ \E e \in StderrTexts("prefetch") :
                 /\ stderr' = IF outcome = "fail" THEN e ELSE <<>>
                 /\ message' = IF outcome = "fail"
                               THEN DownloadError(<<"Error en prefetch para ">>
                                                    \o IdText(cur) \o <<": ">> \o e, None)
                               ELSE <<>>
            /\ pc' = "convert"
            /\ result' = FALSE
  /\ UNCHANGED <<settings, srr_ids, idx, depth, status, fastq_files, results,
                 success_count, trim_inputs, classification, warnings>>

\* SRADownloader.download_sra, called by download_and_convert.
Download ==
  /\ pc = "download"
  /\ dir' = [dir EXCEPT ![cur] = TRUE]
  /\ IF "sub/.sra" \in files[cur]
     THEN /\ pc' = "convert"
          /\ UNCHANGED <<files, calls, failure, result>>
     ELSE \E outcome \in PrefetchOutcomes :
            /\ calls' = Log("prefetch")
            /\ files' = [files EXCEPT ![cur] =
                           IF outcome = "ok" THEN @ \cup {"sub/.sra"} ELSE @]
            /\ raised' = IF outcome = "fail" THEN "DownloadError" ELSE "none"
            /\ \E e \in StderrTexts("prefetch") :
                 /\ stderr' = IF outcome = "fail" THEN e ELSE <<>>
                 /\ message' = IF outcome = "fail"
                               THEN DownloadError(<<"Error en prefetch para ">>
                                                    \o IdText(cur) \o <<": ">> \o e, None)
                               ELSE <<>>
            /\ pc' = IF outcome = "fail" THEN "returned" ELSE "convert"
            /\ result' = FALSE
  /\ UNCHANGED <<settings, srr_ids, idx, depth, status, fastq_files, results,
                 success_count, trim_inputs, classification, warnings>>

\* download_and_convert and convert_only call _clean_sra_file after the
\* conversion; process_full_pipeline's sra_downloaded branch calls
\* convert_to_fastq alone.
CleansSra == config.command # "full" \/ status = "new"

\* Mutant of Cleans: the archive is removed after a failed conversion too.
CleansAlways(failed) == CleansSra /\ ~keep_sra

\* _clean_sra_file is reached when convert_to_fastq has returned, that is
\* when the conversion did not raise, and is called unless keep_sra is set.
Cleans(failed) == ~failed /\ CleansSra /\ ~keep_sra

\* SRADownloader.convert_to_fastq with _validate_output, followed by
\* _clean_sra_file where the caller has it.  fasterq-dump may leave the
\* directory it was given as --temp behind, empty.  The full pipeline goes
\* on to the trimming; the other callers return.
Convert ==
  /\ pc = "convert"
  /\ IF ~SraPresent(cur)
     THEN /\ raised' = "ConversionError"
          /\ message' = ConversionError(<<"Archivo SRA no encontrado para conversion: ">>
                                          \o IdText(cur), None)
          /\ stderr' = <<>>
          /\ pc' = "returned"
          /\ result' = FALSE
          /\ UNCHANGED <<files, calls, fastq_files, warnings>>
     ELSE \E outcome \in FasterqOutcomes, scratch \in SUBSET ScratchNames :
            LET written == (CASE outcome = "paired" -> files[cur] \cup {"_1.fastq", "_2.fastq"}
                              [] outcome = "single" -> files[cur] \cup {".fastq"}
                              [] OTHER -> files[cur]) \cup scratch
                v == _validate_output(written)
                failed == outcome = "fail" \/ v.type = "ConversionError"
                cleans == Cleans(failed)
            IN  \E refused \in Refusals(IF cleans THEN written \cap SraNames ELSE {}) :
                  /\ calls' = Log("fasterq-dump")
                  /\ files' = [files EXCEPT ![cur] =
                                 IF cleans THEN _clean_sra_file(written, refused)
                                 ELSE written]
                  /\ warnings' = warnings \cup refused
                  /\ raised' = IF failed THEN "ConversionError" ELSE "none"
                  /\ \E e \in StderrTexts("fasterq-dump") :
                       /\ stderr' = IF outcome = "fail" THEN e ELSE <<>>
                       /\ message' =
                            IF outcome = "fail"
                            THEN ConversionError(<<"Error en fasterq-dump para ">>
                                                   \o IdText(cur) \o <<": ">> \o e, None)
                            ELSE IF failed
                            THEN ConversionError(<<"No se generaron archivos FASTQ validos para ">>
                                                   \o IdText(cur), None)
                            ELSE <<>>
                  /\ fastq_files' = IF failed THEN fastq_files ELSE v.files
                  /\ pc' = IF ~failed /\ config.command = "full" THEN "trim" ELSE "returned"
                  /\ result' = (~failed /\ config.command # "full")
  /\ UNCHANGED <<dir, settings, srr_ids, idx, depth, status, results,
                 success_count, trim_inputs, classification>>

\* FastpProcessor.process: _process_long_read, _process_paired_end or
\* _process_short_read, with _run_trimming.  An empty input list makes
\* process evaluate input_files[0], which raises IndexError.
Trim ==
  /\ pc = "trim"
  /\ IF fastq_files = <<>>
     THEN /\ raised' = "IndexError"
          /\ message' = BuiltinText("IndexError")
          /\ stderr' = <<>>
          /\ pc' = "aborted"
          /\ result' = FALSE
          /\ UNCHANGED <<dir, files, calls, trim_inputs, classification, warnings>>
     ELSE \E c \in (IF Len(fastq_files) = 1 THEN ReadContents ELSE {Unreadable}) :
       LET long == Len(fastq_files) = 1 /\ _is_long_read(c)
           route == Route(fastq_files, long)
           outs == TrimOutputs(route)
           tool == TrimTool(route)
           inp == TrimInputs(files[cur], fastq_files, route)
       IN  /\ sampled' = c
           /\ is_long' = long
           /\ routed' = route
           /\ UNCHANGED file_type
           /\ dir' = [dir EXCEPT ![cur] = TRUE]
           /\ IF outs \subseteq files[cur] /\ ~force_overwrite
              THEN \E r \in (IF route = "long" THEN _remove_empty_tmp(files[cur])
                             ELSE {[files |-> files[cur], error |-> FALSE]}) :
                     /\ files' = [files EXCEPT ![cur] = r.files]
                     /\ result' = ~r.error
                     /\ raised' = IF r.error THEN "OSError" ELSE raised
                     /\ message' = IF r.error THEN BuiltinText("OSError") ELSE message
                     /\ UNCHANGED stderr
                     /\ pc' = IF r.error THEN "aborted" ELSE "returned"
                     /\ UNCHANGED <<calls, trim_inputs, warnings>>
              ELSE IF inp.std = <<>>
              THEN /\ result' = FALSE
                   /\ raised' = "TrimmingError"
                   /\ message' = TrimmingError(<<"fastp">>,
                                     <<"No se encontraron archivos FASTQ para ">>
                                       \o IdText(cur))
                   /\ stderr' = <<>>
                   /\ pc' = "returned"
                   /\ UNCHANGED <<files, calls, trim_inputs, warnings>>
              ELSE \E outcome \in TrimOutcomes(tool) :
                     /\ calls' = Log(tool)
                     /\ trim_inputs' = inp.std
                     /\ IF outcome \in {"ok", "silent"}
                        THEN \E refused \in Refusals(IF keep_temp THEN {} ELSE SeqRange(inp.std)) :
                             \E r \in _remove_empty_tmp(
                                        AfterTrim(inp.files, inp.std, outs, outcome, refused)) :
                               /\ files' = [files EXCEPT ![cur] = r.files]
                               /\ warnings' = warnings \cup refused
                               /\ result' = ~r.error
                               /\ raised' = IF r.error THEN "OSError" ELSE "none"
                               /\ message' = IF r.error THEN BuiltinText("OSError") ELSE <<>>
                               /\ stderr' = <<>>
                               /\ pc' = IF r.error THEN "aborted" ELSE "returned"
                        ELSE /\ files' = [files EXCEPT ![cur] = inp.files]
                             /\ raised' = IF outcome = "fail" THEN "TrimmingError"
                                          ELSE "FileNotFoundError"
                             /\ \E e \in StderrTexts(tool) :
                                  /\ stderr' = IF outcome = "fail" THEN e ELSE <<>>
                                  /\ message' =
                                       IF outcome = "fail"
                                       THEN TrimmingError(<<"Error en ", tool, " -i: ">> \o e,
                                                          None)
                                       ELSE BuiltinText("FileNotFoundError")
                             /\ result' = FALSE
                             /\ pc' = IF outcome = "notfound" THEN "aborted" ELSE "returned"
                             /\ UNCHANGED warnings
  /\ UNCHANGED <<settings, srr_ids, idx, depth, status, fastq_files, results,
                 success_count>>

\* Mutant of Recover: the recursive call is made without the deletion.
RecoverNoDelete ==
  /\ pc = "recover"
  /\ depth < MaxDepth
  /\ depth' = depth + 1
  /\ pc' = "start"
  /\ UNCHANGED <<dir, files, failure, settings, srr_ids, idx, status, fastq_files,
                 result, results, success_count, calls, trim_inputs, classification, warnings>>

\* Mutant of Recover: the whole output root is removed.
RecoverRemovesRoot ==
  /\ pc = "recover"
  /\ depth < MaxDepth
  /\ \E outcome \in (IF dir[cur] THEN RmtreeOutcomes ELSE {"ok"}) :
       IF outcome = "ok"
       THEN /\ dir' = [u \in Units |-> FALSE]
            /\ files' = [u \in Units |-> {}]
            /\ depth' = depth + 1
            /\ pc' = "start"
            /\ UNCHANGED failure
       ELSE /\ raised' = "OSError"
            /\ message' = BuiltinText("OSError")
            /\ stderr' = <<>>
            /\ pc' = "aborted"
            /\ UNCHANGED <<dir, files, depth>>
  /\ UNCHANGED <<settings, srr_ids, idx, status, fastq_files, result, results,
                 success_count, calls, trim_inputs, classification, warnings>>

\* The unknown branch: shutil.rmtree(srr_dir), then the recursive call.
Recover ==
  /\ pc = "recover"
  /\ depth < MaxDepth
  /\ \E outcome \in (IF dir[cur] THEN RmtreeOutcomes ELSE {"ok"}) :
       IF outcome = "ok"
       THEN /\ dir' = [dir EXCEPT ![cur] = FALSE]
            /\ files' = [files EXCEPT ![cur] = {}]
            /\ depth' = depth + 1
            /\ pc' = "start"
            /\ UNCHANGED failure
       ELSE /\ raised' = "OSError"
            /\ message' = BuiltinText("OSError")
            /\ stderr' = <<>>
            /\ pc' = "aborted"
            /\ UNCHANGED <<dir, files, depth>>
  /\ UNCHANGED <<settings, srr_ids, idx, status, fastq_files, result, results,
                 success_count, calls, trim_inputs, classification, warnings>>

\* Mutant of NextEntry: every finished entry is counted as succeeded.
NextEntryCountAll ==
  /\ pc = "returned"
  /\ results' = Append(results, result)
  /\ success_count' = success_count + 1
  /\ idx' = idx + 1
  /\ IF idx < Len(srr_ids)
     THEN /\ pc' = "start"
          /\ calls' = Append(calls, <<>>)
     ELSE /\ pc' = "summary"
          /\ UNCHANGED calls
  /\ depth' = 0
  /\ status' = "none"
  /\ fastq_files' = <<>>
  /\ result' = FALSE
  /\ raised' = "none"
  /\ message' = <<>>
  /\ stderr' = <<>>
  /\ trim_inputs' = <<>>
  /\ sampled' = Unreadable
  /\ is_long' = FALSE
  /\ file_type' = "none"
  /\ routed' = "none"
  /\ warnings' = {}
  /\ UNCHANGED <<dir, files, settings, srr_ids>>

\* The loop of cmd_full, cmd_download and cmd_trim: count the entry and go
\* on to the next one.  batch_download records the entry the same way.
NextEntry ==
  /\ pc = "returned"
  /\ results' = Append(results, result)
  /\ success_count' = IF result THEN success_count + 1 ELSE success_count
  /\ idx' = idx + 1
  /\ IF idx < Len(srr_ids)
     THEN /\ pc' = "start"
          /\ calls' = Append(calls, <<>>)
     ELSE /\ pc' = "summary"
          /\ UNCHANGED calls
  /\ depth' = 0
  /\ status' = "none"
  /\ fastq_files' = <<>>
  /\ result' = FALSE
  /\ raised' = "none"
  /\ message' = <<>>
  /\ stderr' = <<>>
  /\ trim_inputs' = <<>>
  /\ sampled' = Unreadable
  /\ is_long' = FALSE
  /\ file_type' = "none"
  /\ routed' = "none"
  /\ warnings' = {}
  /\ UNCHANGED <<dir, files, settings, srr_ids>>

Next == Resolve \/ Download \/ Convert \/ Trim \/ Recover \/ NextEntry

Spec == Init /\ [][Next]_vars

\* One list entry, with up to MaxUnitFiles files in its unit's directory.
InitUnit ==
  /\ list_file = <<1>>
  /\ srr_ids = ReadList(list_file)
  /\ \E d \in BOOLEAN, fs \in UpTo(FileNames, MaxUnitFiles) :
       /\ (~d => fs = {})
       /\ dir = [u \in Units |-> IF u = 1 THEN d ELSE FALSE]
       /\ files = [u \in Units |-> IF u = 1 THEN fs ELSE {}]
  /\ keep_temp \in BOOLEAN
  /\ config = create_config("full", FALSE, FALSE, FALSE)
  /\ faults = FALSE
  /\ reliable = FALSE
  /\ parked = NoWorker
  /\ paths = <<>>
  /\ idx = 1
  /\ pc = "start"
  /\ depth = 0
  /\ status = "none"
  /\ fastq_files = <<>>
  /\ result = FALSE
  /\ results = <<>>
  /\ success_count = 0
  /\ calls = << <<>> >>
  /\ raised = "none"
  /\ message = <<>>
  /\ stderr = <<>>
  /\ trim_inputs = <<>>
  /\ sampled = Unreadable
  /\ is_long = FALSE
  /\ file_type = "none"
  /\ routed = "none"
  /\ warnings = {}

SpecUnit == InitUnit /\ [][Next]_vars

\* One call of process_full_pipeline with external tools that exit 0 and
\* write their outputs.  The call is sequential code: each stage starts when
\* the one before it has returned, and a tool invocation blocks until the
\* tool exits, so that a stage that can run does run.
InitReliable ==
  /\ list_file = <<1>>
  /\ srr_ids = ReadList(list_file)
  /\ \E d \in BOOLEAN, fs \in UpTo(FileNames, MaxUnitFiles) :
       /\ (~d => fs = {})
       /\ dir = [u \in Units |-> IF u = 1 THEN d ELSE FALSE]
       /\ files = [u \in Units |-> IF u = 1 THEN fs ELSE {}]
  /\ keep_temp \in BOOLEAN
  /\ config = create_config("full", FALSE, FALSE, FALSE)
  /\ faults = FALSE
  /\ reliable = TRUE
  /\ parked = NoWorker
  /\ paths = <<>>
  /\ idx = 1
  /\ pc = "start"
  /\ depth = 0
  /\ status = "none"
  /\ fastq_files = <<>>
  /\ result = FALSE
  /\ results = <<>>
  /\ success_count = 0
  /\ calls = << <<>> >>
  /\ raised = "none"
  /\ message = <<>>
  /\ stderr = <<>>
  /\ trim_inputs = <<>>
  /\ sampled = Unreadable
  /\ is_long = FALSE
  /\ file_type = "none"
  /\ routed = "none"
  /\ warnings = {}

NextPipeline == Resolve \/ Download \/ Convert \/ Trim \/ Recover

SpecReliable == InitReliable /\ [][NextPipeline]_vars /\ WF_vars(NextPipeline)

\* ------------------------------------------------- interruption and resume
\* The run is killed by the operating environment.  Nothing in the code
\* runs on a kill (no handler, no temporary name): a tool killed while it
\* runs leaves whichever of its outputs it had created, under the names the
\* code gave it (prefetch -O srr_dir, fasterq-dump --outdir srr_dir, fastp
\* -o/-O and fastplong -o with the final names), and an rmtree killed while
\* it runs leaves whichever files it had not yet unlinked.  The long and
\* the short variant of a single input write the same output name.
ToolOutputs ==
  CASE pc = "download" ->
         IF "sub/.sra" \in files[cur] THEN {} ELSE {"sub/.sra"}
    [] pc = "convert" ->
         IF SraPresent(cur) THEN {"_1.fastq", "_2.fastq", ".fastq"} \cup ScratchNames
         ELSE {}
    [] pc = "trim" /\ fastq_files # <<>> ->
         LET outs == TrimOutputs(Route(fastq_files, FALSE))
         IN  IF outs \subseteq files[cur] /\ ~force_overwrite THEN {}
             ELSE outs \cup ReportNames
    [] OTHER -> {}

Interrupt ==
  /\ pc \in {"start", "download", "convert", "trim", "recover"}
  /\ pc' = "interrupted"
  /\ IF pc = "recover"
     THEN /\ \E left \in SUBSET files[cur] : files' = [files EXCEPT ![cur] = left]
          /\ UNCHANGED dir
     ELSE /\ \E partial \in SUBSET ToolOutputs :
               files' = [files EXCEPT ![cur] = @ \cup partial]
          /\ dir' = [dir EXCEPT ![cur] = @ \/ pc \in {"download", "trim"}]
  /\ UNCHANGED <<settings, srr_ids, idx, depth, status, fastq_files, result, results,
                 success_count, calls, failure, trim_inputs, classification, warnings>>

\* The command is started again on the same list: a new process, whose
\* only knowledge of the earlier run is what is on disk.
Resume ==
  /\ pc = "interrupted"
  /\ pc' = "start"
  /\ calls' = [calls EXCEPT ![idx] = <<>>]
  /\ depth' = 0
  /\ status' = "none"
  /\ fastq_files' = <<>>
  /\ result' = FALSE
  /\ raised' = "none"
  /\ message' = <<>>
  /\ stderr' = <<>>
  /\ trim_inputs' = <<>>
  /\ sampled' = Unreadable
  /\ is_long' = FALSE
  /\ file_type' = "none"
  /\ routed' = "none"
  /\ warnings' = {}
  /\ UNCHANGED <<dir, files, settings, srr_ids, idx, results, success_count>>

\* One call of process_full_pipeline, on a unit without trimmed output.
InitCrash ==
  /\ list_file = <<1>>
  /\ srr_ids = ReadList(list_file)
  /\ \E d \in BOOLEAN, fs \in UpTo(FileNames \ TrimmedNames, MaxUnitFiles) :
       /\ (~d => fs = {})
       /\ dir = [u \in Units |-> IF u = 1 THEN d ELSE FALSE]
       /\ files = [u \in Units |-> IF u = 1 THEN fs ELSE {}]
  /\ keep_temp \in BOOLEAN
  /\ config = create_config("full", FALSE, FALSE, FALSE)
  /\ faults = FALSE
  /\ reliable = FALSE
  /\ parked = NoWorker
  /\ paths = <<>>
  /\ idx = 1
  /\ pc = "start"
  /\ depth = 0
  /\ status = "none"
  /\ fastq_files = <<>>
  /\ result = FALSE
  /\ results = <<>>
  /\ success_count = 0
  /\ calls = << <<>> >>
  /\ raised = "none"
  /\ message = <<>>
  /\ stderr = <<>>
  /\ trim_inputs = <<>>
  /\ sampled = Unreadable
  /\ is_long = FALSE
  /\ file_type = "none"
  /\ routed = "none"
  /\ warnings = {}

NextCrash == NextPipeline \/ Interrupt \/ Resume

SpecCrash == InitCrash /\ [][NextCrash]_vars

\* The filesystem environment: between the deletion and the recursive
\* call's resolution another process recreates the unit directory with
\* nothing the program recognizes in it.
EnvRecreate ==
  /\ pc = "start"
  /\ depth > 0
  /\ ~dir[cur]
  /\ dir' = [dir EXCEPT ![cur] = TRUE]
  /\ \E fs \in {{}, {"stray.txt"}} : files' = [files EXCEPT ![cur] = fs]
  /\ UNCHANGED <<settings, srr_ids, idx, pc, depth, status, fastq_files, result,
                 results, success_count, calls, failure, trim_inputs, classification, warnings>>

NextEnv == Next \/ EnvRecreate

SpecEnv == Init /\ [][NextEnv]_vars

\* =================================================================
\* The other per-unit procedures: process_download, process_trim_srr and
\* the loop body of SRADownloader.batch_download
\* =================================================================
\* process_download: download_and_convert for a new unit, convert_only for
\* one whose archive is there, success for every other status.
ResolveDownload ==
  /\ pc = "start"
  /\ config.command = "download"
  /\ LET st == check_srr_status(cur)
     IN  /\ status' = st
         /\ pc' = CASE st = "new" -> "download"
                    [] st = "sra_downloaded" -> "convert"
                    [] OTHER -> "returned"
         /\ result' = (st \notin {"new", "sra_downloaded"})
  /\ UNCHANGED <<dir, files, settings, srr_ids, idx, depth, fastq_files, results,
                 success_count, calls, failure, trim_inputs, classification, warnings>>

\* process_trim_srr: the list found by find_fastq_files is tested for
\* emptiness before the trimmed names are filtered out in the fastq_ready
\* and complete branch, after it in the single_end branch.
ResolveTrim ==
  /\ pc = "start"
  /\ config.command = "trim"
  /\ paths = <<>>
  /\ LET st == check_srr_status(cur)
         found == find_fastq_files(dir[cur], files[cur])
     IN  /\ status' = st
         /\ IF st = "complete" /\ ~force_overwrite
            THEN /\ pc' = "returned"
                 /\ result' = TRUE
                 /\ UNCHANGED fastq_files
            ELSE IF st \in {"fastq_ready", "complete"}
            THEN /\ fastq_files' = IF found = <<>> THEN fastq_files ELSE NotTrimmed(found)
                 /\ pc' = IF found = <<>> THEN "returned" ELSE "trim"
                 /\ result' = FALSE
            ELSE IF st = "single_end"
            THEN /\ fastq_files' = NotTrimmed(found)
                 /\ pc' = IF NotTrimmed(found) # <<>> THEN "trim" ELSE "returned"
                 /\ result' = FALSE
            ELSE /\ pc' = "returned"
                 /\ result' = FALSE
                 /\ UNCHANGED fastq_files
  /\ UNCHANGED <<dir, files, settings, srr_ids, idx, depth, results,
                 success_count, calls, failure, trim_inputs, classification, warnings>>

\* batch_download: download_and_convert for every entry, whatever its
\* directory holds.
StartBatchDownload ==
  /\ pc = "start"
  /\ config.command = "batch_download"
  /\ pc' = "download"
  /\ UNCHANGED <<dir, files, settings, srr_ids, idx, depth, status, fastq_files,
                 result, results, success_count, calls, failure, trim_inputs, classification, warnings>>

NextCli == Next \/ ResolveDownload \/ ResolveTrim

NextCmd == NextCli \/ StartBatchDownload

\* The configurations: one made by create_config for each subcommand and
\* option, and for batch_download one with either keep_sra.
Configs ==
  {create_config(c, f, k, l) :
     c \in {"full", "download", "trim"}, f \in BOOLEAN, k \in BOOLEAN, l \in BOOLEAN}
  \cup {[command |-> "batch_download", force_overwrite |-> FALSE, keep_sra |-> k,
          force_long_reads |-> FALSE] : k \in BOOLEAN}

\* The state before the first list entry is processed; cmd_trim exits on
\* a list without entries, the other loops go straight to their summary.
AtStart ==
  /\ srr_ids = ReadList(list_file)
  /\ idx = 1
  /\ pc = IF srr_ids # <<>> THEN "start"
          ELSE IF config.command = "trim" THEN "aborted" ELSE "summary"
  /\ depth = 0
  /\ status = "none"
  /\ fastq_files = <<>>
  /\ result = FALSE
  /\ results = <<>>
  /\ success_count = 0
  /\ calls = << <<>> >>
  /\ raised = "none"
  /\ message = <<>>
  /\ stderr = <<>>
  /\ trim_inputs = <<>>
  /\ sampled = Unreadable
  /\ is_long = FALSE
  /\ file_type = "none"
  /\ routed = "none"
  /\ warnings = {}

\* One list entry under any configuration, with up to MaxUnitFiles files
\* in its unit's directory.
InitCmd ==
  /\ list_file = <<1>>
  /\ \E d \in BOOLEAN, fs \in UpTo(FileNames, MaxUnitFiles) :
       /\ (~d => fs = {})
       /\ dir = [u \in Units |-> IF u = 1 THEN d ELSE FALSE]
       /\ files = [u \in Units |-> IF u = 1 THEN fs ELSE {}]
  /\ keep_temp \in BOOLEAN
  /\ config \in Configs
  /\ faults = FALSE
  /\ reliable = FALSE
  /\ parked = NoWorker
  /\ paths = <<>>
  /\ AtStart

SpecCmd == InitCmd /\ [][NextCmd]_vars

\* One list entry of the full pipeline on a filesystem that may refuse
\* deletions.
InitFaults ==
  /\ list_file = <<1>>
  /\ \E d \in BOOLEAN, fs \in UpTo(FileNames, MaxUnitFiles) :
       /\ (~d => fs = {})
       /\ dir = [u \in Units |-> IF u = 1 THEN d ELSE FALSE]
       /\ files = [u \in Units |-> IF u = 1 THEN fs ELSE {}]
  /\ keep_temp \in BOOLEAN
  /\ config = create_config("full", FALSE, FALSE, FALSE)
  /\ faults = TRUE
  /\ reliable = FALSE
  /\ parked = NoWorker
  /\ paths = <<>>
  /\ AtStart

SpecFaults == InitFaults /\ [][Next]_vars

\* A list file of ListLines lines, each naming the first or the last unit
\* or blank, under a
\* subcommand with its default options; the output root is empty, or every
\* unit holds a raw pair.
InitSummary ==
  /\ list_file \in [1..ListLines -> {1, NUnits, Blank}]
  /\ \E ready \in {{}, Units} :
       /\ dir = [u \in Units |-> u \in ready]
       /\ files = [u \in Units |-> IF u \in ready THEN {"_1.fastq", "_2.fastq"} ELSE {}]
  /\ keep_temp = FALSE
  /\ config \in {create_config(c, FALSE, FALSE, FALSE) : c \in {"full", "download", "trim"}}
  /\ faults = FALSE
  /\ reliable = FALSE
  /\ parked = NoWorker
  /\ paths = <<>>
  /\ AtStart

SpecSummary == InitSummary /\ [][NextCli]_vars

\* ------------------------------------------------- the classifiers alone
Min(a, b) == IF a <= b THEN a ELSE b

\* The FASTQ texts a classifier is tried on: up to MaxRecords records, the
\* first, all but the last, all or none of them of one length and the
\* others of another, then up to three lines of an unfinished record.
ClassifyContents ==
  {Unreadable}
    \cup {FileContent(TRUE, FastqLines(n, k, a, b, t)) :
            n \in 0..MaxRecords, k \in {0, 1, MaxRecords - 1, MaxRecords},
            a \in ReadLengths, b \in ReadLengths, t \in 0..3}

\* One read file of unit 1, SRR_1.fastq, SRR_2.fastq or SRR.fastq, with or
\* without the two mates next to it.
InitClassify ==
  /\ list_file = <<1>>
  /\ srr_ids = ReadList(list_file)
  /\ idx = 1
  /\ \E name \in {"_1.fastq", "_2.fastq", ".fastq"}, others \in SUBSET {"_1.fastq", "_2.fastq"} :
       /\ fastq_files = <<name>>
       /\ files = [u \in Units |-> IF u = 1 THEN {name} \cup others ELSE {}]
  /\ dir = [u \in Units |-> u = 1]
  /\ sampled \in ClassifyContents
  /\ keep_temp = FALSE
  /\ config = create_config("trim", FALSE, FALSE, FALSE)
  /\ faults = FALSE
  /\ reliable = FALSE
  /\ parked = NoWorker
  /\ paths = <<>>
  /\ pc = "classify"
  /\ depth = 0
  /\ status = "none"
  /\ result = FALSE
  /\ results = <<>>
  /\ success_count = 0
  /\ calls = << <<>> >>
  /\ raised = "none"
  /\ message = <<>>
  /\ stderr = <<>>
  /\ trim_inputs = <<>>
  /\ is_long = FALSE
  /\ file_type = "none"
  /\ routed = "none"
  /\ warnings = {}

\* detect_fastq_type(fastq_file), as process_trim_fastq calls it.
DetectFastqType ==
  /\ pc = "classify"
  /\ file_type' = detect_fastq_type(fastq_files[1], sampled, files[cur])
  /\ pc' = "classified"
  /\ UNCHANGED <<dir, files, settings, srr_ids, idx, depth, status, fastq_files,
                 result, results, success_count, calls, failure, trim_inputs,
                 sampled, is_long, routed, warnings>>

\* FastpProcessor._is_long_read(input_file), as process calls it.
IsLongRead ==
  /\ pc = "classify"
  /\ is_long' = _is_long_read(sampled)
  /\ pc' = "classified"
  /\ UNCHANGED <<dir, files, settings, srr_ids, idx, depth, status, fastq_files,
                 result, results, success_count, calls, failure, trim_inputs,
                 sampled, file_type, routed, warnings>>

NextClassify == DetectFastqType \/ IsLongRead

SpecClassify == InitClassify /\ [][NextClassify]_vars

\* ------------------------------------------------- two workers
\* What the directory of a unit may hold when the two workers start: no
\* directory, or one with nothing, an unrecognised file, an archive, raw
\* reads, or trimmed outputs next to raw reads.
WorkerContents ==
  {{}, {"stray.txt"}, {"sub/.sra"}, {".fq"}, {"_1.fastq", "_2.fastq"},
   {"_trimmed.fastq.gz", ".fastq"}}

\* Two workers run process_full_pipeline, one for unit 1 and one for unit
\* NUnits; the second one is parked.
InitWorkers ==
  /\ list_file = <<1, NUnits>>
  /\ srr_ids = ReadList(list_file)
  /\ \E d \in [{1, NUnits} -> BOOLEAN], c \in [{1, NUnits} -> WorkerContents] :
       /\ \A u \in {1, NUnits} : ~d[u] => c[u] = {}
       /\ dir = [u \in Units |-> IF u \in {1, NUnits} THEN d[u] ELSE FALSE]
       /\ files = [u \in Units |-> IF u \in {1, NUnits} THEN c[u] ELSE {}]
  /\ keep_temp = FALSE
  /\ config = create_config("full", FALSE, FALSE, FALSE)
  /\ faults = FALSE
  /\ reliable = FALSE
  /\ parked = Fresh(2)
  /\ paths = <<>>
  /\ idx = 1
  /\ pc = "start"
  /\ depth = 0
  /\ status = "none"
  /\ fastq_files = <<>>
  /\ result = FALSE
  /\ results = <<>>
  /\ success_count = 0
  /\ calls = << <<>>, <<>> >>
  /\ raised = "none"
  /\ message = <<>>
  /\ stderr = <<>>
  /\ trim_inputs = <<>>
  /\ sampled = Unreadable
  /\ is_long = FALSE
  /\ file_type = "none"
  /\ routed = "none"
  /\ warnings = {}

\* The scheduler lets the other worker run, while that one has not
\* finished its unit.
Switch ==
  /\ parked.pc \notin {"none", "returned", "aborted"}
  /\ parked' = Locals
  /\ idx' = parked.idx
  /\ pc' = parked.pc
  /\ depth' = parked.depth
  /\ status' = parked.status
  /\ fastq_files' = parked.fastq_files
  /\ result' = parked.result
  /\ raised' = parked.raised
  /\ message' = parked.message
  /\ stderr' = parked.stderr
  /\ trim_inputs' = parked.trim_inputs
  /\ sampled' = parked.sampled
  /\ is_long' = parked.is_long
  /\ file_type' = parked.file_type
  /\ routed' = parked.routed
  /\ warnings' = parked.warnings
  /\ UNCHANGED <<dir, files, keep_temp, config, faults, reliable, list_file, paths,
                 srr_ids, results, success_count, calls>>

NextWorkers == Resolve \/ Download \/ Convert \/ Trim \/ Recover \/ Switch

SpecWorkers == InitWorkers /\ [][NextWorkers]_vars

\* ------------------------------------------------- trim of a list of FASTQ paths
\* cmd_trim takes the list for FASTQ paths when its first line has a path
\* separator or a FASTQ extension, and calls process_trim_fastq on each
\* line.  The lines name read files of one unit's directory under the output
\* root, <root>/<id>/<id>_1.fastq and the like, so that base_id is the
\* unit's identifier and _get_output_dir gives the unit's directory.
PathNames == {"_1.fastq", "_2.fastq", ".fastq"}

\* fastq_file.name.replace('_1.', '_2.').replace('_1_', '_2_')
ReplaceMate(name) == IF IsMate1(name) THEN PartnerOf(name) ELSE name

\* The list process_trim_fastq hands to the trimmer: the file and, when it
\* was detected as paired or has '_1' in its name, the partner if there is
\* one.
PartnerFiles(name, type, fs) ==
  IF type = "paired" \/ IsMate1(name)
  THEN IF ReplaceMate(name) \in fs THEN <<name, ReplaceMate(name)>> ELSE <<name>>
  ELSE <<name>>

\* process_trim_fastq up to the call of trimmer.process.
ResolveTrimFastq ==
  /\ pc = "start"
  /\ config.command = "trim"
  /\ paths # <<>>
  /\ IF ~Exists(cur, paths[idx])
     THEN /\ pc' = "returned"
          /\ result' = FALSE
          /\ UNCHANGED <<fastq_files, sampled, file_type>>
     ELSE \E c \in ReadContents :
            /\ sampled' = c
            /\ file_type' = detect_fastq_type(paths[idx], c, files[cur])
            /\ fastq_files' = PartnerFiles(paths[idx], file_type', files[cur])
            /\ pc' = "trim"
            /\ result' = FALSE
  /\ UNCHANGED <<dir, files, settings, srr_ids, idx, depth, status, results,
                 success_count, calls, failure, trim_inputs, is_long, routed, warnings>>

\* process_trim_fastq's except Exception: whatever the trimmer raises is
\* printed and the entry fails.
CatchException ==
  /\ pc = "aborted"
  /\ paths # <<>>
  /\ srr_ids # <<>>
  /\ pc' = "returned"
  /\ result' = FALSE
  /\ UNCHANGED <<dir, files, settings, srr_ids, idx, depth, status, fastq_files,
                 results, success_count, calls, failure, trim_inputs, classification,
                 warnings>>

\* A list of BatchLen paths into the directory of the first unit, which
\* holds any of the files a path may name.
InitPaths ==
  /\ paths \in [1..BatchLen -> PathNames]
  /\ list_file = [i \in 1..BatchLen |-> 1]
  /\ \E fs \in SUBSET PathNames :
       /\ dir = [u \in Units |-> u = 1]
       /\ files = [u \in Units |-> IF u = 1 THEN fs ELSE {}]
  /\ keep_temp \in BOOLEAN
  /\ config \in {create_config("trim", f, FALSE, FALSE) : f \in BOOLEAN}
  /\ faults = FALSE
  /\ reliable = FALSE
  /\ parked = NoWorker
  /\ AtStart

NextPaths == ResolveTrimFastq \/ Trim \/ CatchException \/ NextEntry

SpecPaths == InitPaths /\ [][NextPaths]_vars

\* =================================================================
\* Claims about status resolution, checked under SpecStatus
\* =================================================================
ExtSet == {".fastq", ".fq", ".fas"}

Resolved == pc = "resolved"

Has(n) == n \in files[1]

TrimmedDone == (Has("_1_trimmed.fastq.gz") /\ Has("_2_trimmed.fastq.gz")) \/ Has("_trimmed.fastq.gz")

RawPair == \E ext \in ExtSet : Has(Mate1(ext)) /\ Has(Mate2(ext))

RawSingle == \E ext \in ExtSet : Has(Single(ext))

RawArchive == Has(".sra") \/ Has("sub/.sra")

\* C1: for every combination of directory presence and artifact presence,
\* check_srr_status yields one of the six pipeline states.
C1_StatusTotal == Resolved => status \in States

C1_Witness ==
  /\ Resolved
  /\ status = "unknown"
  /\ {"_1.fastq", "_2.fq", "_1_trimmed.fastq.gz", "stray.txt"} \subseteq files[1]

\* C2: the result is complete exactly when both trimmed mates or the single
\* trimmed file are present, whatever raw reads or raw archives also exist.
C2_CompleteFirst == Resolved => (status = "complete" <=> TrimmedDone)

C2_Witness ==
  /\ Resolved
  /\ status = "complete"
  /\ {"_1_trimmed.fastq.gz", "_2_trimmed.fastq.gz", "_1.fastq", "_2.fastq", ".fq", ".sra"}
       \subseteq files[1]
  /\ ~Has("_trimmed.fastq.gz")

\* C3: when no trimmed output qualifies as complete, the result is
\* fastq_ready exactly when both raw mates exist under one and the same
\* extension, also when a single raw read or a raw archive is present.
C3_PairSameExt ==
  (Resolved /\ dir[1] /\ ~TrimmedDone) => (status = "fastq_ready" <=> RawPair)

C3_Witness ==
  /\ Resolved
  /\ status = "fastq_ready"
  /\ {"_1.fastq", "_1.fq", "_2.fq", ".fastq", ".sra"} \subseteq files[1]
  /\ ~Has("_2.fastq")

\* C4: with no complete trimmed output, no raw pair and no single raw read,
\* the result is sra_downloaded exactly when the raw archive exists at the
\* unit root or in the identifier-named subdirectory.
C4_ArchiveEitherPlace ==
  (Resolved /\ dir[1] /\ ~TrimmedDone /\ ~RawPair /\ ~RawSingle)
    => (status = "sra_downloaded" <=> RawArchive)

C4_Witness ==
  /\ Resolved
  /\ status = "sra_downloaded"
  /\ Has("sub/.sra")
  /\ ~Has(".sra")

\* C5 as stated: new exactly when the directory is absent, and unknown
\* exactly when the directory exists and holds no recognized trimmed,
\* raw-read or raw-archive file.
C5_Original ==
  Resolved =>
    /\ (status = "new" <=> ~dir[1])
    /\ (status = "unknown" <=>
          (dir[1] /\ files[1] \cap (TrimmedNames \cup RawNames \cup SraNames) = {}))

\* C5 amended: new exactly when the directory is absent, and unknown exactly
\* when the directory exists and none of the rules above it matches: no
\* complete trimmed output, no same-extension raw pair, no single raw read
\* and no raw archive (a lone mate does not count).
C5_NewAndUnknown ==
  Resolved =>
    /\ (status = "new" <=> ~dir[1])
    /\ (status = "unknown" <=>
          (dir[1] /\ ~TrimmedDone /\ ~RawPair /\ ~RawSingle /\ ~RawArchive))

C5_Witness ==
  /\ Resolved
  /\ status = "unknown"
  /\ files[1] = {"_1.fastq", "_2_trimmed.fastq.gz"}

\* C6: a status resolution leaves the filesystem as it was, also when the
\* unit directory is missing.
C6_ResolveNoSideEffect ==
  [][(pc = "idle" /\ pc' = "resolved") => (dir' = dir /\ files' = files)]_vars

C6_Witness == Resolved /\ ~dir[1] /\ status = "new" /\ files[1] = {}

\* =================================================================
\* Claims about the full pipeline, checked under Spec, SpecUnit and SpecEnv
\* =================================================================
\* C7: when a list entry names the unit of the entry before it and that
\* earlier run returned success, the second run invokes no external tool
\* and changes no file of the unit.
C7_SecondRunIdle ==
  [][(/\ idx > 1
      /\ idx <= Len(srr_ids)
      /\ srr_ids[idx] = srr_ids[idx - 1]
      /\ results[idx - 1])
     => (dir' = dir /\ files' = files /\ calls'[idx] = calls[idx])]_vars

\* C8: a unit that resolved to unknown has its whole directory deleted, is
\* run again from state new, and returns success when no stage of that run
\* raises, after prefetch, fasterq-dump and a trimming tool in this order.
C8_RecoveryFromUnknown ==
  depth >= 1 =>
    /\ (pc = "start" => (~dir[cur] /\ files[cur] = {}))
    /\ (pc # "start" => status = "new")
    /\ ((pc = "returned" /\ raised = "none") =>
          /\ result
          /\ calls[idx] \in {<<"prefetch", "fasterq-dump", "fastp">>,
                             <<"prefetch", "fasterq-dump", "fastplong">>})

C8_Witness ==
  /\ depth = 1
  /\ pc = "returned"
  /\ result
  /\ "_1_trimmed.fastq.gz" \in files[cur]

\* C9: the per-unit procedure makes at most one recovery attempt: a unit
\* that resolves to unknown again after the deletion is not recovered a
\* second time.
C9_AtMostOneRecovery == ~(pc = "recover" /\ depth >= 1)

\* C10: a failure while a unit is processed (a stage error or a failed
\* directory deletion) is caught at that unit's boundary and recorded as a
\* failed unit, so that the loop goes on to the next entry.
C10_FailureIsolated == raised # "none" => (pc = "returned" /\ ~result)

\* =================================================================
\* Claims about the batch and the stages, checked under Spec, SpecUnit,
\* SpecCmd, SpecSummary and SpecFaults
\* =================================================================
\* C11: when the batch of the full pipeline is over, every list entry that
\* was counted as succeeded names a unit that resolves to complete,
\* whatever happened to the other entries.
C11_SucceededIsComplete ==
  pc = "summary" =>
    \A i \in 1..Len(results) :
      results[i] => check_srr_status(srr_ids[i]) = "complete"

\* C12: the count that cmd_full, cmd_download and cmd_trim report is the
\* number of finished list entries whose per-unit procedure returned True,
\* the total is the number of lines of the list file that are not blank,
\* and the count never exceeds the total; at the summary every entry has
\* been counted.
C12_SummaryExact ==
  /\ success_count = Cardinality({i \in 1..Len(results) : results[i]})
  /\ Len(srr_ids) = Cardinality({i \in 1..Len(list_file) : list_file[i] # Blank})
  /\ Len(results) <= Len(srr_ids)
  /\ success_count <= Len(srr_ids)
  /\ (pc = "summary" => Len(results) = Len(srr_ids))

C12_Witness ==
  /\ pc = "summary"
  /\ config.command = "download"
  /\ results = <<TRUE, FALSE, TRUE>>
  /\ success_count = 2

\* C13: for a unit that resolved to new the full pipeline invokes prefetch,
\* then fasterq-dump, then one trimming tool, in this order: fasterq-dump
\* runs only once download_sra has returned, the trimming tool only once
\* convert_to_fastq has returned, and once a stage has raised the call is
\* over with no further tool invoked.
C13_DispatchFromNew ==
  (config.command = "full" /\ status = "new") =>
    /\ calls[idx] \in {<<>>, <<"prefetch">>, <<"prefetch", "fasterq-dump">>,
                       <<"prefetch", "fasterq-dump", "fastp">>,
                       <<"prefetch", "fasterq-dump", "fastplong">>}
    /\ (pc = "download" => calls[idx] = <<>>)
    /\ (pc = "convert" => (calls[idx] = <<"prefetch">> /\ raised = "none"))
    /\ (pc = "trim" => (calls[idx] = <<"prefetch", "fasterq-dump">> /\ raised = "none"))
    /\ (raised # "none" => pc \in {"returned", "aborted"})
    /\ ((pc = "returned" /\ result) => Len(calls[idx]) = 3)

C13_Witness ==
  /\ config.command = "full"
  /\ status = "new"
  /\ pc = "returned"
  /\ result
  /\ calls[idx] = <<"prefetch", "fasterq-dump", "fastp">>

\* C14: for a unit that resolved to sra_downloaded the full pipeline
\* invokes fasterq-dump and then one trimming tool, and never prefetch.
C14_DispatchFromSraDownloaded ==
  (config.command = "full" /\ status = "sra_downloaded") =>
    /\ calls[idx] \in {<<>>, <<"fasterq-dump">>,
                       <<"fasterq-dump", "fastp">>, <<"fasterq-dump", "fastplong">>}
    /\ pc \in {"convert", "trim", "returned", "aborted"}
    /\ (pc = "convert" => calls[idx] = <<>>)
    /\ (pc = "trim" => calls[idx] = <<"fasterq-dump">>)
    /\ ((pc = "returned" /\ result) => Len(calls[idx]) = 2)

C14_Witness ==
  /\ config.command = "full"
  /\ status = "sra_downloaded"
  /\ pc = "returned"
  /\ result
  /\ calls[idx] = <<"fasterq-dump", "fastp">>

\* C15: for a unit that resolved to fastq_ready or single_end the full
\* pipeline invokes nothing but one trimming tool, and no file with a
\* trimmed name is among the inputs given to it.
C15_DispatchFromReadsReady ==
  (config.command = "full" /\ status \in {"fastq_ready", "single_end"}) =>
    /\ calls[idx] \in {<<>>, <<"fastp">>, <<"fastplong">>}
    /\ pc \in {"trim", "returned", "aborted"}
    /\ SeqRange(fastq_files) \cap TrimmedNames = {}
    /\ SeqRange(trim_inputs) \cap TrimmedNames = {}

C15_Witness ==
  /\ config.command = "full"
  /\ status = "single_end"
  /\ pc = "returned"
  /\ calls[idx] = <<"fastp">>
  /\ trim_inputs = <<".fastq">>
  /\ "_1_trimmed.fastq.gz" \in files[cur]

\* C16: for a unit that resolves to complete, process_full_pipeline and
\* process_trim_srr return True with no tool invoked and no file changed
\* when overwrite is not requested; when it is requested the unit goes to
\* the trim stage, which invokes a trimming tool again.
C16_CompleteNoOpUnlessOverwrite ==
  [][/\ (/\ pc = "start"
         /\ config.command \in {"full", "trim"}
         /\ check_srr_status(cur) = "complete"
         /\ ~force_overwrite)
        => (/\ pc' = "returned"
            /\ result'
            /\ calls' = calls
            /\ dir' = dir
            /\ files' = files)
     /\ (/\ pc = "start"
         /\ config.command \in {"full", "trim"}
         /\ check_srr_status(cur) = "complete"
         /\ force_overwrite)
        => pc' = "trim"
     /\ (pc = "trim" /\ status = "complete" /\ force_overwrite)
        => Len(calls'[idx]) = Len(calls[idx]) + 1]_vars

\* The outputs a stage is expected to leave: an archive at either place,
\* raw reads that _validate_output accepts, the trimmed file or mates of
\* the variant that the number of inputs selects.
AcquisitionDone == SraPresent(cur)

ConversionDone == dir[cur] /\ _validate_output(files[cur]).type # "ConversionError"

TrimDone ==
  /\ dir[cur]
  /\ (IF Len(fastq_files) = 2 THEN TrimOutputs("paired") ELSE TrimOutputs("short"))
       \subseteq files[cur]

\* C17: download_sra, convert_to_fastq and the trim variants return
\* success without invoking their tool when the stage's outputs exist and
\* overwrite is unset, an archive at either place counting for
\* download_sra, and invoke the tool otherwise.
C17_StageSkip ==
  [][/\ pc = "download" =>
          IF AcquisitionDone /\ ~force_overwrite
          THEN calls' = calls /\ pc' = "convert"
          ELSE calls'[idx] = Append(calls[idx], "prefetch")
     /\ (pc = "convert" /\ SraPresent(cur)) =>
          IF ConversionDone /\ ~force_overwrite
          THEN calls' = calls /\ raised' = "none"
          ELSE calls'[idx] = Append(calls[idx], "fasterq-dump")
     /\ (pc = "trim" /\ fastq_files # <<>>) =>
          IF TrimDone /\ ~force_overwrite
          THEN calls' = calls /\ (result' \/ raised' = "OSError")
          ELSE calls'[idx] # calls[idx]]_vars

\* C18: when a stage has run its tool and the tool exited with status 0,
\* the stage returns without an error only if its outputs exist: an
\* archive after prefetch, raw reads after fasterq-dump, the trimmed file
\* or both trimmed mates after a trimming tool.
C18_OutputsVerified ==
  [][/\ (pc = "download" /\ calls'[idx] # calls[idx] /\ raised' = "none")
          => (SraPresent(cur))'
     /\ (pc = "convert" /\ calls'[idx] # calls[idx] /\ raised' = "none")
          => ConversionDone'
     /\ (pc = "trim" /\ calls'[idx] # calls[idx] /\ raised' = "none")
          => (paired_complete(cur) \/ single_complete(cur))']_vars

\* C19: a unit with no directory in the output root, run through the full
\* pipeline with keep_temp unset (keep_sra is unset for this subcommand):
\* when the run returns True the directory holds the single trimmed file
\* or both trimmed mates, no archive, no raw read file, and a report.
C19_EndToEnd ==
  (/\ config.command = "full"
   /\ ~keep_temp
   /\ depth = 0
   /\ status = "new"
   /\ pc = "returned"
   /\ result)
  => /\ paired_complete(cur) \/ single_complete(cur)
     /\ files[cur] \cap SraNames = {}
     /\ files[cur] \cap RawNames = {}
     /\ files[cur] \cap ReportNames # {}

\* C20: a deletion that fails after the tool succeeded does not fail the
\* stage: a refused unlink of the archive leaves the conversion
\* successful, and when a trimming tool has exited with status 0 and its
\* outputs exist, the call returns True whether or not the unlink of an
\* input or the rmdir of the empty tmp directory is refused.
C20_CleanupNeverFails ==
  [][/\ (pc = "convert" /\ warnings' # warnings)
          => (raised' = "none" /\ pc' = "trim")
     /\ (/\ pc = "trim"
         /\ calls'[idx] # calls[idx]
         /\ raised' \notin {"TrimmingError", "FileNotFoundError"}
         /\ (paired_complete(cur) \/ single_complete(cur))')
          => (result' /\ pc' = "returned")]_vars

\* A text that holds the pieces of part, in order and adjacent.
Carries(text, part) ==
  \E i \in 1..(Len(text) - Len(part) + 1) :
    SubSeq(text, i, i + Len(part) - 1) = part

\* The stage error of the tool called last for the current entry.
StageErrorOf(tool) ==
  CASE tool = "prefetch" -> "DownloadError"
    [] tool = "fasterq-dump" -> "ConversionError"
    [] OTHER -> "TrimmingError"

\* C21: when an external tool has exited with a non-zero status, the error
\* raised is the one of the tool's stage (DownloadError for prefetch,
\* ConversionError for fasterq-dump, TrimmingError for fastp and fastplong)
\* and its text holds both the identifier of the unit and what the tool
\* wrote to stderr.
C21_ToolErrorCarriesIdAndDiagnostic ==
  stderr # <<>>
  => /\ raised = StageErrorOf(calls[idx][Len(calls[idx])])
     /\ Carries(message, IdText(cur))
     /\ Carries(message, stderr)

\* The tool called last for the current entry.
LastCall == calls[idx][Len(calls[idx])]

\* C22: process runs the long-read variant exactly when it is given one
\* input file and that file is classified as long, the paired variant
\* exactly when it is given two input files, and the short single-end
\* variant in every other case; the tool called and the number of files it
\* is given are those of the variant.
C22_RoutingByCountAndLength ==
  routed # "none"
  => LET one_long == Len(fastq_files) = 1 /\ _is_long_read(sampled)
         two == Len(fastq_files) = 2
     IN  /\ routed = "long" <=> one_long
         /\ routed = "paired" <=> two
         /\ routed = "short" <=> (~one_long /\ ~two)
         /\ trim_inputs # <<>>
              => /\ LastCall = (IF one_long THEN "fastplong" ELSE "fastp")
                 /\ Len(trim_inputs) = (IF two THEN 2 ELSE 1)

C22_Witness ==
  /\ routed = "long"
  /\ LastCall = "fastplong"
  /\ trim_inputs = fastq_files
  /\ sampled = FileContent(TRUE, FastqLines(1, 1, LongThreshold + 1, LongThreshold + 1, 0))
  /\ result

\* C23: with the force-long-reads option set, every trimming that process
\* routes goes to the long-read variant, whatever the number of input
\* files and whatever their content.
C23_ForceLongReads ==
  (config.force_long_reads /\ routed # "none")
  => /\ routed = "long"
     /\ trim_inputs # <<>> => LastCall = "fastplong"

\* =================================================================
\* Claims about the classifiers, checked under SpecClassify
\* =================================================================
\* The sum of the first n entries of s.
Total(s) ==
  LET upto[n \in 0..Len(s)] == IF n = 0 THEN 0 ELSE upto[n - 1] + s[n]
  IN  upto[Len(s)]

\* The arithmetic mean of the entries of s is strictly greater than m.
MeanAbove(s, m) == s # <<>> /\ Total(s) > m * Len(s)

\* The lengths a classifier has sampled from the file it was given.
SampledLengths ==
  IF sampled.readable THEN sample_lengths(sampled.lines, 0, <<>>) ELSE <<>>

Detected == pc = "classified" /\ file_type # "none"

LengthTested == pc = "classified" /\ file_type = "none"

\* C24: detect_fastq_type reports long, and _is_long_read returns True,
\* exactly when the mean of the sampled lengths is strictly greater than
\* 500: not for a mean of exactly 500, and for a mean of 501.
C24_LongIffMeanAbove500 ==
  /\ Detected => (file_type = "long" <=> MeanAbove(SampledLengths, 500))
  /\ LengthTested => (is_long <=> MeanAbove(SampledLengths, 500))
  /\ (pc = "classified" /\ SampledLengths # <<>>
        /\ Total(SampledLengths) = 500 * Len(SampledLengths))
       => (file_type # "long" /\ ~is_long)
  /\ (pc = "classified" /\ SampledLengths # <<>>
        /\ Total(SampledLengths) = 501 * Len(SampledLengths))
       => (file_type = "long" \/ is_long)

\* Twenty-five records sampled, one read of 501 and twenty-four of 500.
C24_Witness ==
  /\ Detected
  /\ file_type = "long"
  /\ sampled = FileContent(TRUE, FastqLines(SampleSize, 1, 501, 500, 0))

\* The complete four-line records of the file, none when it cannot be read.
FullRecords == IF sampled.readable THEN Len(sampled.lines) \div 4 ELSE 0

\* The read lengths of the first 25 complete records.
CompleteLengths ==
  [r \in 1..Min(25, FullRecords) |-> sampled.lines[4 * (r - 1) + 2]]

\* C25: a classifier always returns a verdict; for a file with fewer than
\* one complete record (no line, one, two or three lines, or a file that
\* cannot be read) the verdict is single and not long; and the verdict on
\* the length is the one of the mean over the complete records among the
\* first 25 only.
C25_BestEffortDefault ==
  /\ Detected
       => /\ file_type \in {"single", "paired", "long"}
          /\ FullRecords = 0 => file_type = "single"
          /\ file_type = "long" <=> MeanAbove(CompleteLengths, 500)
  /\ LengthTested
       => /\ FullRecords = 0 => ~is_long
          /\ is_long <=> MeanAbove(CompleteLengths, 500)

\* A file of the mate pair is next to the file classified: its _2 for a
\* _1, its _1 for a _2.
SiblingExists ==
  \/ fastq_files[1] = "_1.fastq" /\ "_2.fastq" \in files[cur]
  \/ fastq_files[1] = "_2.fastq" /\ "_1.fastq" \in files[cur]

\* C26: for a file whose sampled reads are short, detect_fastq_type reports
\* paired exactly when the other mate of the file exists, whichever of the
\* two mates is classified, and single otherwise.
C26_PairedIffSibling ==
  (Detected /\ SampledLengths # <<>> /\ ~MeanAbove(SampledLengths, 500))
  => /\ file_type = "paired" <=> SiblingExists
     /\ file_type = "single" <=> ~SiblingExists

\* =================================================================
\* Claims about extension spellings, state changes and deletions
\* =================================================================
CanonicalNames == {Mate1(".fastq"), Mate2(".fastq"), Single(".fastq")}

\* C27: whenever fastp has been called for the current entry, each input
\* file it was given has the .fastq extension, also when the raw reads in
\* the directory were spelled .fq or .fas.
C27_CanonicalInputs ==
  (trim_inputs # <<>> /\ LastCall = "fastp")
  => SeqRange(trim_inputs) \subseteq CanonicalNames

\* The spellings under which each raw read file of the current entry exists.
SingleSpellings == {e \in ExtSet : Single(e) \in files[cur]}

Mate1Spellings == {e \in ExtSet : Mate1(e) \in files[cur]}

Mate2Spellings == {e \in ExtSet : Mate2(e) \in files[cur]}

\* C28: when a stage that ran its tool has completed successfully, the
\* directory of the unit holds at most one spelling of the single raw read
\* file, of the first mate and of the second mate.
C28_SingleSpelling ==
  (pc = "returned" /\ result /\ calls[idx] # <<>>)
  => /\ Cardinality(SingleSpellings) <= 1
     /\ Cardinality(Mate1Spellings) <= 1
     /\ Cardinality(Mate2Spellings) <= 1

\* A step of a stage that ended without an error and left a new file in
\* the directory of unit u.
StageProduced(u) ==
  /\ pc \in {"download", "convert", "trim"}
  /\ u = cur
  /\ raised' = "none"
  /\ files'[u] \ files[u] # {}

\* C29: the status that check_srr_status resolves for a unit changes only
\* in a step of a stage that succeeds and produces new files; a stage that
\* fails leaves it as it was.  The deletion of the corruption recovery is
\* left aside.
C29_StateChangesOnlyOnSuccess ==
  [][\A u \in Units :
       (pc # "recover" /\ check_srr_status(u)' # check_srr_status(u))
         => StageProduced(u)]_vars

\* C30: under every subcommand, the directory of a unit stops existing only
\* in the step of the corruption recovery, taken for the current entry
\* right after it has resolved to unknown; no step taken for a unit that
\* resolved to new, sra_downloaded, fastq_ready, single_end or complete
\* removes its directory.
C30_DirectoryDeletedOnlyInRecovery ==
  [][\A u \in Units :
       (dir[u] /\ ~dir'[u])
         => /\ pc = "recover"
            /\ u = cur
            /\ status = "unknown"
            /\ check_srr_status(u) = "unknown"]_vars

\* The recovery has just deleted the directory of the current entry.
C30_Witness ==
  /\ pc = "start"
  /\ depth = 1
  /\ status = "unknown"
  /\ ~dir[cur]
  /\ config.command = "full"

\* =================================================================
\* Claims about workers, retention, progress, interruption and resumed runs
\* =================================================================
\* C31: with two workers processing two distinct units, every step of a
\* unit's procedure (status resolution, a stage, cleanup, recovery) changes
\* files and directories only in the directory of its own unit, and leaves
\* the local state, the tool calls and the directory of the other worker's
\* unit as they were, however the steps of the two are interleaved.
C31_OwnDirectoryOnly ==
  [][/\ \A u \in Units :
          u # cur => (files'[u] = files[u] /\ dir'[u] = dir[u])
     /\ parked' = parked
          => /\ idx' = idx
             /\ \A i \in 1..Len(calls) : i # idx => calls'[i] = calls[i]
     /\ parked' # parked
          => /\ files' = files /\ dir' = dir /\ calls' = calls
             /\ parked' = Locals]_vars

\* Both workers are in the middle of their units, each after a conversion
\* that wrote raw reads into its own directory.
C31_Witness ==
  /\ parked.pc = "trim"
  /\ pc = "trim"
  /\ parked.idx # idx
  /\ "_1.fastq" \in files[1]
  /\ ".fastq" \in files[NUnits]
  /\ calls[1] = <<"prefetch", "fasterq-dump">>
  /\ calls[2] = <<"fasterq-dump">>

\* C32: the retention flags govern the deletions.  A step that runs the
\* trimming tool to a successful exit removes, among the archives and read
\* files of the unit, exactly the inputs it passed to the tool when
\* keep_temp is unset, and none when it is set.  A step of
\* download_and_convert or convert_only that runs the conversion tool with
\* success leaves no archive when keep_sra is unset and leaves the archives
\* alone when it is set.  A step whose tool fails removes nothing.
Removed == files[cur] \ files'[cur]

C32_RetentionFlags ==
  [][/\ (pc = "trim" /\ calls' # calls /\ raised' = "none") =>
          Removed \cap (RawNames \cup TrimmedNames \cup SraNames)
            = (IF keep_temp THEN {} ELSE SeqRange(trim_inputs'))
     /\ (pc = "convert" /\ calls' # calls /\ raised' = "none" /\ CleansSra) =>
          IF keep_sra THEN Removed = {}
          ELSE files'[cur] \cap SraNames = {} /\ Removed \subseteq SraNames
     /\ (pc \in {"trim", "convert"} /\ calls' # calls /\ raised' # "none") =>
          Removed = {}]_vars

C32_Witness ==
  /\ pc = "returned" /\ result /\ status = "new"
  /\ calls[idx] = <<"prefetch", "fasterq-dump", "fastp">>
  /\ ~keep_temp /\ ~keep_sra
  /\ trim_inputs = <<"_1.fastq", "_2.fastq">>
  /\ files[cur] \cap (RawNames \cup SraNames) = {}
  /\ TrimOutputs("paired") \subseteq files[cur]

\* C33: when every external tool exits successfully and writes its outputs,
\* a call of process_full_pipeline ends, whatever the unit's directory held
\* at the start, by returning success with the unit resolving to complete.
C33_Progress ==
  <>(pc = "returned" /\ result /\ check_srr_status(cur) = "complete")

C33_Witness ==
  /\ pc = "returned" /\ result /\ depth = 1
  /\ calls[idx] = <<"prefetch", "fasterq-dump", "fastp">>
  /\ check_srr_status(cur) = "complete"

\* C34: at every interruption of a run on a unit that had no trimmed output,
\* the unit resolves to complete only if a trimming tool has exited
\* successfully for it, and a run that returns success after a resume has
\* invoked a trimming tool.
TrimmingInvoked == \E i \in 1..Len(calls[idx]) : calls[idx][i] \in {"fastp", "fastplong"}

C34_CrashConsistent ==
  /\ pc = "interrupted" => check_srr_status(cur) # "complete"
  /\ (pc = "returned" /\ result) => TrimmingInvoked

\* C35: with the default retention flags, a call of process_full_pipeline
\* that returns success leaves neither a raw archive nor a raw read file in
\* the unit's directory, whatever the directory held at the start.
C35_ResumedRunsCleanUp ==
  (pc = "returned" /\ result /\ ~keep_temp /\ ~keep_sra) =>
     files[cur] \cap (RawNames \cup SraNames) = {}

\* C36: when the first run on a unit invoked the acquisition tool and then
\* the conversion tool and failed, the next run on that unit starts with the
\* archive on disk, resolves the unit to sra_downloaded, does not invoke the
\* acquisition tool and begins with the conversion tool.
C36_ResumeAfterFailedConversion ==
  (/\ idx = 2 /\ Len(srr_ids) >= 2 /\ srr_ids[1] = srr_ids[2]
   /\ calls[1] = <<"prefetch", "fasterq-dump">> /\ results[1] = FALSE) =>
     /\ pc = "start" => (SraPresent(cur) /\ check_srr_status(cur) = "sra_downloaded")
     /\ pc # "start" => status = "sra_downloaded"
     /\ \A i \in 1..Len(calls[2]) : calls[2][i] # "prefetch"
     /\ pc \notin {"start", "convert"} => (calls[2] # <<>> /\ calls[2][1] = "fasterq-dump")

C36_Witness ==
  /\ idx = 2 /\ Len(srr_ids) >= 2 /\ srr_ids[1] = srr_ids[2]
  /\ calls[1] = <<"prefetch", "fasterq-dump">> /\ results[1] = FALSE
  /\ pc = "returned" /\ result
  /\ calls[2] = <<"fasterq-dump", "fastp">>

\* C37: when a unit resolved to fastq_ready, the list handed to the trimmer
\* is a mate 1 followed by its mate 2 and the paired variant runs on them,
\* whatever else the directory holds; when it resolved to single_end, the
\* list handed to the trimmer has exactly one file.
C37_RouteAgreesWithState ==
  /\ (status = "fastq_ready" /\ pc = "trim") =>
        \E e \in SeqRange(FASTQ_EXTENSIONS) : fastq_files = <<Mate1(e), Mate2(e)>>
  /\ (status = "fastq_ready" /\ routed # "none") =>
        /\ routed = "paired"
        /\ trim_inputs # <<>> => trim_inputs = fastq_files
  /\ (status = "single_end" /\ pc = "trim") => Len(fastq_files) = 1

\* C38: process_trim_srr never hands the trimmer an empty list of input
\* files and never ends by an exception: it returns success or failure for
\* every directory content, with and without the overwrite flag.
C38_TrimSrrAlwaysReturns ==
  config.command = "trim" =>
     /\ ~(pc = "trim" /\ fastq_files = <<>>)
     /\ pc # "aborted"

\* C39: process_download returns success only for a unit that afterwards
\* resolves to fastq_ready, single_end or complete; a unit that resolves to
\* unknown is not reported as downloaded.
C39_DownloadSuccessTruthful ==
  (config.command = "download" /\ pc = "returned" /\ result) =>
     check_srr_status(cur) \in {"fastq_ready", "single_end", "complete"}

\* C40: in the trim of a list of FASTQ paths, processing one entry removes
\* no other file that a later entry of the list names.
C40_LaterEntriesUntouched ==
  [][paths # <<>> =>
       \A j \in (idx + 1)..Len(paths) :
          (paths[j] # paths[idx] /\ paths[j] \in files[cur]) => paths[j] \in files'[cur]]_vars

====
